---- MODULE Spec2Model ----
(***************************************************************************)
(* A model of pious.hrc.hand: the lazy node graph of an exported HRC hand. *)
(* HRCSim opens an export directory and preloads every node file through   *)
(* a NodeCache; NodeCache.__getitem__ canonicalizes a reference (integer   *)
(* id, path or filename) to a node path and constructs an HRCNode for it   *)
(* on the first access; HRCNode.take_action walks one edge of the tree.    *)
(*                                                                         *)
(* Python strings are TLA+ strings, taken apart with Len, SubSeq and \o.   *)
(* An optional value (None or a value v) is the sequence <<>> or <<v>>.    *)
(* A JSON object (a dict) is a function from its keys to its values, so a  *)
(* missing key is a key that is not in the DOMAIN.                         *)
(***************************************************************************)
EXTENDS Integers, Sequences, FiniteSets, TLC

VARIABLES
    disk,        \* the file system: absolute path -> entry (fixed after Init)
    kind,        \* per session: "none", "cache" (a bare NodeCache) or "sim" (an HRCSim)
    nodes_path,  \* per session: NodeCache.nodes_path ("" when there is no session)
    cache,       \* per session: NodeCache.cache, node path -> object
    nodes,       \* per session: HRCSim.nodes, a list of objects
    heap,        \* the HRCNode objects constructed, by identity
    reads,       \* per session: node path -> number of times the file was read
    loads,       \* per session: the <<reference, object>> pairs of the objects stored
    last,        \* the last call: operation, arguments and outcome
    view,        \* the payload the last as_json call returned
    pc,          \* per resolver thread: its position inside __getitem__
    titem,       \* per resolver thread: the reference it resolves
    tpath,       \* per resolver thread: its local node_path
    tnew,        \* per resolver thread: the object it constructed
    tret         \* per resolver thread: the object it returned

vars == <<disk, kind, nodes_path, cache, nodes, heap, reads, loads, last, view,
          pc, titem, tpath, tnew, tret>>

(***************************************************************************)
(* Bounds of the model.                                                    *)
(***************************************************************************)
\* A session reads one node file at most this many times (a corrupt file is
\* read again by every resolve that reaches it).
MaxReads == 2

(***************************************************************************)
(* Python's str methods.                                                   *)
(***************************************************************************)
None == <<>>
Some(v) == <<v>>

CharAt(s, i) == SubSeq(s, i, i)

StartsWith(s, p) == Len(p) <= Len(s) /\ SubSeq(s, 1, Len(p)) = p

EndsWith(s, p) == Len(p) <= Len(s) /\ SubSeq(s, Len(s) - Len(p) + 1, Len(s)) = p

\* sub in s
Contains(s, sub) ==
    \E i \in 1..(Len(s) - Len(sub) + 1) : SubSeq(s, i, i + Len(sub) - 1) = sub

\* s.strip(chars): drop, from both ends, every character that occurs in chars.
CharsOf(chars) == {CharAt(chars, i) : i \in 1..Len(chars)}

RECURSIVE LStrip(_, _)
LStrip(s, cs) ==
    IF Len(s) > 0 /\ CharAt(s, 1) \in cs THEN LStrip(SubSeq(s, 2, Len(s)), cs) ELSE s

RECURSIVE RStrip(_, _)
RStrip(s, cs) ==
    IF Len(s) > 0 /\ CharAt(s, Len(s)) \in cs THEN RStrip(SubSeq(s, 1, Len(s) - 1), cs) ELSE s

Strip(s, chars) == RStrip(LStrip(s, CharsOf(chars)), CharsOf(chars))

\* s.split("/") as a sequence of strings
RECURSIVE SplitFrom(_, _, _)
SplitFrom(s, i, cur) ==
    IF i > Len(s) THEN <<cur>>
    ELSE IF CharAt(s, i) = "/" THEN <<cur>> \o SplitFrom(s, i + 1, "")
    ELSE SplitFrom(s, i + 1, cur \o CharAt(s, i))

Split(s) == SplitFrom(s, 1, "")

\* "/".join(comps)
RECURSIVE JoinSlash(_)
JoinSlash(comps) ==
    IF Len(comps) = 0 THEN ""
    ELSE IF Len(comps) = 1 THEN comps[1]
    ELSE comps[1] \o "/" \o JoinSlash(Tail(comps))

(***************************************************************************)
(* f"{n}" and int(s) for integers.                                         *)
(***************************************************************************)
Digits == <<"0", "1", "2", "3", "4", "5", "6", "7", "8", "9">>

DigitVal(c) == (CHOOSE i \in 1..Len(Digits) : Digits[i] = c) - 1

IsDigit(c) == \E i \in 1..Len(Digits) : Digits[i] = c

RECURSIVE NatToStr(_)
NatToStr(n) ==
    IF n < Len(Digits) THEN Digits[n + 1]
    ELSE NatToStr(n \div Len(Digits)) \o Digits[(n % Len(Digits)) + 1]

IntToStr(n) == IF n < 0 THEN "-" \o NatToStr(-n) ELSE NatToStr(n)

RECURSIVE DigitsToNat(_, _)
DigitsToNat(s, acc) ==
    IF Len(s) = 0 THEN acc
    ELSE DigitsToNat(SubSeq(s, 2, Len(s)), acc * Len(Digits) + DigitVal(CharAt(s, 1)))

AllDigits(s) == Len(s) > 0 /\ \A i \in 1..Len(s) : IsDigit(CharAt(s, i))

\* int(s): an optional sign and decimal digits (surrounding blanks are dropped);
\* anything else is a ValueError, here None.
StrToInt(s0) ==
    LET s == Strip(s0, " ")
        signed == Len(s) > 0 /\ CharAt(s, 1) \in {"-", "+"}
        body == IF signed THEN SubSeq(s, 2, Len(s)) ELSE s
    IN  IF ~AllDigits(body) THEN None
        ELSE IF signed /\ CharAt(s, 1) = "-" THEN Some(0 - DigitsToNat(body, 0))
        ELSE Some(DigitsToNat(body, 0))

(***************************************************************************)
(* os.path on POSIX.                                                       *)
(***************************************************************************)
\* The working directory of the process.
Cwd == "/w"

\* osp.join(a, b)
Join(a, b) ==
    IF StartsWith(b, "/") THEN b
    ELSE IF a = "" \/ EndsWith(a, "/") THEN a \o b
    ELSE a \o "/" \o b

\* osp.normpath: drop "" and "." components, let ".." cancel the component
\* before it (or nothing, at the root of an absolute path).
RECURSIVE NormComps(_, _, _)
NormComps(comps, acc, isabs) ==
    IF Len(comps) = 0 THEN acc
    ELSE LET c == Head(comps) IN
         IF c \in {"", "."} THEN NormComps(Tail(comps), acc, isabs)
         ELSE IF c # ".." \/ (~isabs /\ Len(acc) = 0)
                          \/ (Len(acc) > 0 /\ acc[Len(acc)] = "..")
              THEN NormComps(Tail(comps), Append(acc, c), isabs)
         ELSE IF Len(acc) > 0
              THEN NormComps(Tail(comps), SubSeq(acc, 1, Len(acc) - 1), isabs)
         ELSE NormComps(Tail(comps), acc, isabs)

Normpath(p) ==
    IF p = "" THEN "."
    ELSE LET isabs == StartsWith(p, "/")
             slashes == IF ~isabs THEN ""
                        ELSE IF StartsWith(p, "//") /\ ~StartsWith(p, "///") THEN "//"
                        ELSE "/"
             out == slashes \o JoinSlash(NormComps(Split(p), <<>>, isabs))
         IN  IF out = "" THEN "." ELSE out

\* osp.abspath(p)
Abspath(p) == Normpath(IF StartsWith(p, "/") THEN p ELSE Join(Cwd, p))

\* osp.basename(p): what follows the last "/"
Basename(p) == LET comps == Split(p) IN comps[Len(comps)]

(***************************************************************************)
(* The file system.  An entry is a directory, a file holding a JSON        *)
(* object, or a file json.loads rejects.                                   *)
(***************************************************************************)
EmptyDict == <<>>

Dir == [type |-> "dir", valid |-> FALSE, json |-> EmptyDict]

File(j) == [type |-> "file", valid |-> TRUE, json |-> j]

BadFile == [type |-> "file", valid |-> FALSE, json |-> EmptyDict]

IsDir(d, p) == p \in DOMAIN d /\ d[p].type = "dir"

\* The path of the directory that holds p (p absolute and normalized).
Dirname(p) ==
    LET comps == Split(p)
        up == JoinSlash(SubSeq(comps, 1, Len(comps) - 1))
    IN  IF up = "" THEN "/" ELSE up

\* The kernel's path walk: the entry p names, or None when there is none.
RECURSIVE Walk(_, _, _)
Walk(d, cur, comps) ==
    IF Len(comps) = 0 THEN Some(cur)
    ELSE LET c == Head(comps) IN
         IF c = "" THEN Walk(d, cur, Tail(comps))
         ELSE IF ~IsDir(d, cur) THEN None
         ELSE IF c = "." THEN Walk(d, cur, Tail(comps))
         ELSE IF c = ".." THEN Walk(d, Dirname(cur), Tail(comps))
         ELSE IF Join(cur, c) \in DOMAIN d THEN Walk(d, Join(cur, c), Tail(comps))
         ELSE None

\* osp.exists(p)
Exists(d, p) ==
    p # "" /\ Walk(d, IF StartsWith(p, "/") THEN "/" ELSE Cwd, Split(p)) # None

\* os.listdir(p), p an absolute normalized directory path
Listdir(d, p) == {Basename(q) : q \in {x \in DOMAIN d : x # "/" /\ Dirname(x) = p}}

(***************************************************************************)
(* Node files.  Node0 and Node1 are the two nodes of the end-to-end        *)
(* example of the specification (section 8); Node2 adds an edge to node 0, *)
(* an edge to a node that has no file and an action of an unknown kind.    *)
(***************************************************************************)
RequiredFields == {"player", "street", "children", "sequence", "actions", "hands"}

Node0 ==
    [player |-> 1, street |-> 0, children |-> 2, sequence |-> <<>>,
     actions |-> <<[type |-> "F", amount |-> 0],
                   [type |-> "R", amount |-> 200, node |-> 1]>>,
     hands |-> ("AA" :> [weight |-> 1, played |-> <<0, 1>>, evs |-> <<0, 5>>])]

Node1 ==
    [player |-> 2, street |-> 0, children |-> 1,
     sequence |-> <<[player |-> 1, type |-> "R", amount |-> 200]>>,
     actions |-> <<[type |-> "C", amount |-> 0]>>,
     hands |-> ("AA" :> [weight |-> 1, played |-> <<1>>, evs |-> <<3>>])]

Node2 ==
    [player |-> 1, street |-> 1, children |-> 3, sequence |-> <<>>,
     actions |-> <<[type |-> "R", amount |-> 50, node |-> 7],
                   [type |-> "C", amount |-> 0, node |-> 0],
                   [type |-> "X", amount |-> 0]>>,
     hands |-> ("KK" :> [weight |-> 1, played |-> <<0, 1, 0>>, evs |-> <<1, 2, 3>>])]

Without(j, k) == [x \in DOMAIN j \ {k} |-> j[x]]

SettingsJson ==
    [handdata |-> "opaque", treeconfig |-> "opaque", engine |-> "opaque",
     eqmodel |-> "opaque"]

BaseDirs == ("/" :> Dir) @@ ("/w" :> Dir) @@ ("/h" :> Dir) @@ ("/h/nodes" :> Dir)

ImgNoSettings ==
    BaseDirs @@ ("/h/nodes/0.json" :> File(Node0)) @@ ("/h/nodes/1.json" :> File(Node1))

ImgExample == ImgNoSettings @@ ("/h/settings.json" :> File(SettingsJson))

ImgRich ==
    ImgExample @@ ("/h/nodes/2.json" :> File(Node2))
               @@ ("/h/nodes/notes.txt" :> BadFile)
               @@ ("/h/nodes/sub" :> Dir)
               @@ ("/h/nodes2" :> Dir)
               @@ ("/h/nodes2/0.json" :> File(Node1))

ImgMissing(f) == ("/h/nodes/1.json" :> File(Without(Node1, f))) @@ ImgExample

ImgBadJson == ("/h/nodes/1.json" :> BadFile) @@ ImgExample

ImgNeg == ImgExample @@ ("/h/nodes/-1.json" :> File(Node1))

\* Node 1 with two played frequencies and two values for its one action.
Node1LongHands ==
    [Node1 EXCEPT !.hands = ("AA" :> [weight |-> 1, played |-> <<1, 0>>, evs |-> <<3, 0>>])]

ImgLongHands == ("/h/nodes/1.json" :> File(Node1LongHands)) @@ ImgExample

\* A second file whose name strips to the digit 1.
ImgOddName == ImgExample @@ ("/h/nodes/n1.json" :> File(Node1))

DiskImages ==
    {ImgExample, ImgRich, ImgBadJson, ImgNeg, ImgNoSettings, ImgLongHands, ImgOddName}
        \cup {ImgMissing(f) : f \in RequiredFields}

\* Two exported hands side by side; node 0 of the second has no successor file.
ImgTwoHands ==
    ImgExample @@ ("/g" :> Dir) @@ ("/g/settings.json" :> File(SettingsJson))
               @@ ("/g/nodes" :> Dir) @@ ("/g/nodes/0.json" :> File(Node0))

Sessions == {"A", "B"}

Threads == {"t1", "t2"}

(***************************************************************************)
(* References and outcomes.  A reference is tagged with its Python type:   *)
(* "int" (value n), "str" (value v) or "other" (None, a float, a list).     *)
(***************************************************************************)
IntRef(n) == [t |-> "int", n |-> n, v |-> ""]

StrRef(x) == [t |-> "str", n |-> 0, v |-> x]

OtherRef == [t |-> "other", n |-> 0, v |-> ""]

NoItem == [t |-> "none", n |-> 0, v |-> ""]

\* An object (an HRCNode) is known by an identity, a string; NoObj is none.
\* An outcome: kind "ok" with the object returned, kind "None" (the call
\* returned None), or the class of the exception raised, with its text.
NoObj == ""

Ok(o) == [kind |-> "ok", obj |-> o, msg |-> ""]

Raise(k, m) == [kind |-> k, obj |-> NoObj, msg |-> m]

ReturnNone == [kind |-> "None", obj |-> NoObj, msg |-> ""]

(***************************************************************************)
(* Action.__init__, PreviousAction.__init__, HandStrategy.__init__         *)
(***************************************************************************)
Get(j, k) == IF k \in DOMAIN j THEN Some(j[k]) ELSE None

\* The first of keys that j lacks, or None: the KeyError of j[k].
RECURSIVE FirstMissing(_, _)
FirstMissing(j, keys) ==
    IF Len(keys) = 0 THEN None
    ELSE IF Head(keys) \notin DOMAIN j THEN Some(Head(keys))
    ELSE FirstMissing(j, Tail(keys))

ActionKeys == <<"type", "amount">>

Action(a) ==
    [player |-> Get(a, "player"), type |-> a.type, amount |-> a.amount,
     next_id |-> Get(a, "node")]

PreviousActionKeys == <<"player", "type", "amount">>

PreviousAction(x) == [player |-> x.player, type |-> x.type, amount |-> x.amount]

HandStrategyKeys == <<"weight", "played", "evs">>

HandStrategy(h, j) ==
    [hand |-> h, weight |-> j.weight, played |-> j.played, evs |-> j.evs, json |-> j]

\* The KeyError of building every element of a list, or None.
RECURSIVE FirstMissingIn(_, _)
FirstMissingIn(list, keys) ==
    IF Len(list) = 0 THEN None
    ELSE IF FirstMissing(Head(list), keys) # None THEN FirstMissing(Head(list), keys)
    ELSE FirstMissingIn(Tail(list), keys)

(***************************************************************************)
(* HRCNode.__init__                                                        *)
(***************************************************************************)
\* The attributes the try block (player, street, children, sequence) sets:
\* it stops at the first KeyError, which is printed and swallowed.
TryBlock(j) ==
    LET p == "player" \in DOMAIN j
        s == p /\ "street" \in DOMAIN j
        c == s /\ "children" \in DOMAIN j
        q == c /\ "sequence" \in DOMAIN j
               /\ FirstMissingIn(j.sequence, PreviousActionKeys) = None
    IN  (IF p THEN "player" :> j.player ELSE EmptyDict)
        @@ (IF s THEN "street" :> j.street ELSE EmptyDict)
        @@ (IF c THEN "children" :> j.children ELSE EmptyDict)
        @@ (IF q THEN "sequence" :> [i \in DOMAIN j.sequence |-> PreviousAction(j.sequence[i])]
                 ELSE EmptyDict)

\* The hands of j that HandStrategy cannot be built from.
BadHands(j) == {h \in DOMAIN j.hands : FirstMissing(j.hands[h], HandStrategyKeys) # None}


\* The sign stripped with the suffix: -1.json gets the id 1.
NodeIdUnsigned(node_json_file) == StrToInt(Strip(Basename(node_json_file), "-.json"))

\* self.id
NodeId(node_json_file) == StrToInt(Strip(Basename(node_json_file), ".json"))

\* The key of the KeyError that building actions and hands raises, or None.
ParseError(j) ==
    IF "actions" \notin DOMAIN j THEN Some("actions")
    ELSE IF FirstMissingIn(j.actions, ActionKeys) # None
    THEN FirstMissingIn(j.actions, ActionKeys)
    ELSE IF "hands" \notin DOMAIN j THEN Some("hands")
    ELSE IF BadHands(j) # {}
    THEN FirstMissing(j.hands[CHOOSE h \in BadHands(j) : TRUE], HandStrategyKeys)
    ELSE None

Failed(out, read) == [out |-> out, read |-> read, new |-> EmptyDict]

\* The fields of the object, from the file's JSON j.
NodeParse(j, s, f, id, err) ==
    IF err # None THEN Failed(Raise("KeyError", err[1]), TRUE)
    ELSE [out |-> Ok(NoObj), read |-> TRUE,
          new |-> [node_cache |-> s, filename |-> f, id |-> id, _node_json |-> j,
                   actions |-> [i \in DOMAIN j.actions |-> Action(j.actions[i])],
                   hands |-> [h \in DOMAIN j.hands |-> HandStrategy(h, j.hands[h])]]
                  @@ TryBlock(j)]

NodeOpen(d, s, f, id) ==
    IF id = None THEN Failed(Raise("ValueError", "invalid literal for int()"), FALSE)
    ELSE IF d[f].type = "dir" THEN Failed(Raise("OSError", f), FALSE)
    ELSE IF ~d[f].valid THEN Failed(Raise("JSONDecodeError", f), TRUE)
    ELSE NodeParse(d[f].json, s, f, id[1], ParseError(d[f].json))

\* HRCNode(node_json_file, node_cache) on file system d, for the cache of
\* session s: the outcome, whether the file was read, and the new object.
NodeInit(d, node_json_file, s) ==
    IF node_json_file = None
    THEN Failed(Raise("TypeError", "expected str, bytes or os.PathLike object"), FALSE)
    ELSE NodeOpen(d, s, node_json_file[1], NodeId(node_json_file[1]))

(***************************************************************************)
(* NodeCache.__getitem__                                                   *)
(***************************************************************************)
NodeSuffix == ".json"

Found(p) == [err |-> FALSE, path |-> Some(p), msg |-> ""]

\* The str branch without its final else: no KeyError, node_path stays None.
CanonStrNoRaise(d, np, x) ==
    IF StartsWith(x, np) /\ EndsWith(x, NodeSuffix) /\ Exists(d, x)
    THEN Found(Abspath(x))
    ELSE IF EndsWith(x, NodeSuffix) /\ Exists(d, Join(np, x))
    THEN Found(Abspath(Join(np, x)))
    ELSE [err |-> FALSE, path |-> None, msg |-> ""]

\* The two string forms: a path that starts with nodes_path, or a name
\* inside nodes_path; anything else is the KeyError.
CanonStr(d, np, x) ==
    IF StartsWith(x, np) /\ EndsWith(x, NodeSuffix) /\ Exists(d, x)
    THEN Found(Abspath(x))
    ELSE IF EndsWith(x, NodeSuffix) /\ Exists(d, Join(np, x))
    THEN Found(Abspath(Join(np, x)))
    ELSE [err |-> TRUE, path |-> None, msg |-> "No such node " \o x]

\* The canonicalization of item into node_path: the path (None when item is
\* neither int nor str, so that node_path keeps its initial None), or the
\* KeyError raised.
Canonicalize(d, np, item) ==
    IF item.t = "int"
    THEN CanonStr(d, np, Abspath(Join(np, IntToStr(item.n) \o NodeSuffix)))
    ELSE IF item.t = "str" THEN CanonStr(d, np, item.v)
    ELSE [err |-> FALSE, path |-> None, msg |-> ""]

\* node_path in self.cache
InCache(c, node_path) == node_path # None /\ node_path[1] \in DOMAIN c

\* The part of the state one __getitem__ works on: the cache, the objects,
\* the count of reads of each file, and the loads (the <<reference, object>>
\* pairs of the constructions that were stored).
World(s) == [cache |-> cache[s], heap |-> heap, reads |-> reads[s], loads |-> loads[s]]

CountRead(r, node_path, read) ==
    IF read THEN [r EXCEPT ![node_path[1]] = @ + 1] ELSE r

\* A new identity: the session, the file and the number of the construction.
NewObj(h, s, f) ==
    s \o ":" \o f \o "#"
      \o IntToStr(Cardinality({o \in DOMAIN h : h[o].node_cache = s /\ h[o].filename = f}) + 1)

\* The node files the actions of node lead to, next to the file at path.
SuccessorFiles(d, path, node) ==
    {q \in DOMAIN d :
        /\ d[q].type = "file" /\ d[q].valid /\ RequiredFields \subseteq DOMAIN d[q].json
        /\ \E i \in DOMAIN node.actions :
              /\ node.actions[i].next_id # None
              /\ q = Join(Dirname(path), IntToStr(node.actions[i].next_id[1]) \o NodeSuffix)}

\* The world w with the files qs loaded into it too.
WithLoaded(d, w, s, qs) ==
    [cache |-> [q \in DOMAIN w.cache \cup qs |->
                   IF q \in DOMAIN w.cache THEN w.cache[q] ELSE NewObj(w.heap, s, q)],
     heap |-> [o \in DOMAIN w.heap \cup {NewObj(w.heap, s, q) : q \in qs \ DOMAIN w.cache} |->
                   IF o \in DOMAIN w.heap THEN w.heap[o]
                   ELSE NodeInit(d, Some(CHOOSE q \in qs : NewObj(w.heap, s, q) = o), s).new],
     reads |-> [q \in DOMAIN w.reads |->
                   IF q \in qs \ DOMAIN w.cache THEN w.reads[q] + 1 ELSE w.reads[q]],
     loads |-> w.loads]

\* An eager constructor: building a record loads the successors of its actions.
ConstructEager(w, s, node_path, item, n) ==
    IF n.out.kind # "ok"
    THEN [out |-> n.out, w |-> [w EXCEPT !.reads = CountRead(@, node_path, n.read)]]
    ELSE [out |-> Ok(NewObj(w.heap, s, node_path[1])),
          w |-> WithLoaded(disk,
                    [cache |-> (node_path[1] :> NewObj(w.heap, s, node_path[1])) @@ w.cache,
                     heap |-> (NewObj(w.heap, s, node_path[1]) :> n.new) @@ w.heap,
                     reads |-> CountRead(w.reads, node_path, n.read),
                     loads |-> w.loads \cup {<<item, NewObj(w.heap, s, node_path[1])>>}],
                    s, SuccessorFiles(disk, node_path[1], n.new))]

\* self.cache[node_path] = HRCNode(node_path, self); return self.cache[node_path]
Construct(w, s, node_path, item, n) ==
    IF n.out.kind # "ok"
    THEN [out |-> n.out, w |-> [w EXCEPT !.reads = CountRead(@, node_path, n.read)]]
    ELSE [out |-> Ok(NewObj(w.heap, s, node_path[1])),
          w |-> [cache |-> (node_path[1] :> NewObj(w.heap, s, node_path[1])) @@ w.cache,
                 heap |-> (NewObj(w.heap, s, node_path[1]) :> n.new) @@ w.heap,
                 reads |-> CountRead(w.reads, node_path, n.read),
                 loads |-> w.loads \cup {<<item, NewObj(w.heap, s, node_path[1])>>}]]

\* A cache keyed by the reference as given instead of by node_path.
RawKey(item) == IF item.t = "int" THEN IntToStr(item.n) ELSE item.v

GetItemAtRawKey(d, w, s, item, c) ==
    IF c.err THEN [out |-> Raise("KeyError", c.msg), w |-> w]
    ELSE IF RawKey(item) \in DOMAIN w.cache THEN [out |-> Ok(w.cache[RawKey(item)]), w |-> w]
    ELSE IF NodeInit(d, c.path, s).out.kind # "ok"
    THEN Construct(w, s, c.path, item, NodeInit(d, c.path, s))
    ELSE [out |-> Ok(NewObj(w.heap, s, c.path[1])),
          w |-> [cache |-> (RawKey(item) :> NewObj(w.heap, s, c.path[1])) @@ w.cache,
                 heap |-> (NewObj(w.heap, s, c.path[1]) :> NodeInit(d, c.path, s).new) @@ w.heap,
                 reads |-> CountRead(w.reads, c.path, TRUE),
                 loads |-> w.loads \cup {<<item, NewObj(w.heap, s, c.path[1])>>}]]

\* No test of the cache: every call constructs and stores again.
GetItemAtNoTest(d, w, s, item, c) ==
    IF c.err THEN [out |-> Raise("KeyError", c.msg), w |-> w]
    ELSE Construct(w, s, c.path, item, NodeInit(d, c.path, s))

GetItemAt(d, w, s, item, c) ==
    IF c.err THEN [out |-> Raise("KeyError", c.msg), w |-> w]
    ELSE IF InCache(w.cache, c.path) THEN [out |-> Ok(w.cache[c.path[1]]), w |-> w]
    ELSE Construct(w, s, c.path, item, NodeInit(d, c.path, s))

\* self[item] on the cache of session s: the outcome and the world after it.
GetItem(d, w, np, s, item) == GetItemAt(d, w, s, item, Canonicalize(d, np, item))

(***************************************************************************)
(* HRCNode.take_action                                                     *)
(***************************************************************************)
\* seq[i] for a Python tuple: a negative index counts from the end; None
\* stands for the IndexError.
PyIndex(seq, i) ==
    IF 0 <= i /\ i < Len(seq) THEN Some(seq[i + 1])
    ELSE IF i < 0 /\ 0 - Len(seq) <= i THEN Some(seq[Len(seq) + i + 1])
    ELSE None

\* "not a.next_id" in place of "a.next_id is None": the id 0 counts as absent.
IsTerminalFalsy(a) == a.next_id = None \/ a.next_id = Some(0)

\* a.next_id is None
IsTerminal(a) == a.next_id = None

\* The action index resolved in place of the action's next_id.
TakeActionCallByIndex(d, w, np, s, node, action) ==
    IF action.t # "int"
    THEN [out |-> Raise("RuntimeError", "Can only take integer actions"), w |-> w]
    ELSE IF PyIndex(node.actions, action.n) = None
    THEN [out |-> Raise("IndexError", "tuple index out of range"), w |-> w]
    ELSE IF IsTerminal(PyIndex(node.actions, action.n)[1]) THEN [out |-> ReturnNone, w |-> w]
    ELSE GetItem(d, w, np, s, IntRef(action.n))

\* The KeyError of the lookup caught and turned into "no further node".
Swallow(r) == IF r.out.kind = "KeyError" THEN [out |-> ReturnNone, w |-> r.w] ELSE r

TakeActionCallSwallow(d, w, np, s, node, action) ==
    IF action.t # "int"
    THEN [out |-> Raise("RuntimeError", "Can only take integer actions"), w |-> w]
    ELSE IF PyIndex(node.actions, action.n) = None
    THEN [out |-> Raise("IndexError", "tuple index out of range"), w |-> w]
    ELSE IF IsTerminal(PyIndex(node.actions, action.n)[1]) THEN [out |-> ReturnNone, w |-> w]
    ELSE Swallow(GetItem(d, w, np, s, IntRef(PyIndex(node.actions, action.n)[1].next_id[1])))

\* node.take_action(action), node an object of session s
TakeActionCall(d, w, np, s, node, action) ==
    IF action.t # "int"
    THEN [out |-> Raise("RuntimeError", "Can only take integer actions"), w |-> w]
    ELSE IF PyIndex(node.actions, action.n) = None
    THEN [out |-> Raise("IndexError", "tuple index out of range"), w |-> w]
    ELSE IF IsTerminal(PyIndex(node.actions, action.n)[1]) THEN [out |-> ReturnNone, w |-> w]
    ELSE GetItem(d, w, np, s, IntRef(PyIndex(node.actions, action.n)[1].next_id[1]))

(***************************************************************************)
(* HRCSim.__init__                                                         *)
(***************************************************************************)
SettingsKeys == <<"handdata", "treeconfig", "engine", "eqmodel">>

\* Reading settings.json and building SolveSettings: the outcome.
LoadSettings(d, hand_export_dir) ==
    IF ~Exists(d, Join(hand_export_dir, "settings.json"))
       \/ IsDir(d, Abspath(Join(hand_export_dir, "settings.json")))
    THEN Raise("OSError", Join(hand_export_dir, "settings.json"))
    ELSE IF ~d[Abspath(Join(hand_export_dir, "settings.json"))].valid
    THEN Raise("JSONDecodeError", Join(hand_export_dir, "settings.json"))
    ELSE IF FirstMissing(d[Abspath(Join(hand_export_dir, "settings.json"))].json,
                         SettingsKeys) # None
    THEN Raise("KeyError",
               FirstMissing(d[Abspath(Join(hand_export_dir, "settings.json"))].json,
                            SettingsKeys)[1])
    ELSE Ok(NoObj)

\* No filter: every entry of the directory is taken for a node file.
IsNodeFileAny(node_file_json) == TRUE

\* The filter of the discovery loop.
IsNodeFile(node_file_json) == EndsWith(node_file_json, NodeSuffix)

\* The discovery loop over the directory listing, in the order listdir gave:
\* the first exception ends it.
RECURSIVE LoadNodes(_, _, _, _, _, _)
LoadNext(d, r, np, s, listing, acc) ==
    IF r.out.kind # "ok" THEN [out |-> r.out, w |-> r.w, nodes |-> acc]
    ELSE LoadNodes(d, r.w, np, s, Tail(listing), Append(acc, r.out.obj))

LoadNodes(d, w, np, s, listing, acc) ==
    IF Len(listing) = 0 THEN [out |-> Ok(NoObj), w |-> w, nodes |-> acc]
    ELSE IF ~IsNodeFile(Head(listing))
    THEN LoadNodes(d, w, np, s, Tail(listing), acc)
    ELSE LoadNext(d, GetItem(d, w, np, s, StrRef(Join(np, Head(listing)))),
                  np, s, listing, acc)

SimAfterSettings(d, w, np, s, listing, settings) ==
    IF settings.kind # "ok" THEN [out |-> settings, w |-> w, nodes |-> <<>>]
    ELSE IF ~IsDir(d, Abspath(np)) THEN [out |-> Raise("OSError", np), w |-> w, nodes |-> <<>>]
    ELSE LoadNodes(d, w, np, s, listing, <<>>)

\* HRCSim(hand_export_dir), with listdir answering listing
HRCSimInit(d, w, hand_export_dir, s, listing) ==
    SimAfterSettings(d, w, Join(hand_export_dir, "nodes"), s, listing,
                     LoadSettings(d, hand_export_dir))

\* The orders in which listdir may give the names S.
Orders(S) ==
    {f \in [1..Cardinality(S) -> S] : \A i, j \in DOMAIN f : i # j => f[i] # f[j]}

(***************************************************************************)
(* The state machine: one session at a time, called from one thread.       *)
(***************************************************************************)
ExportDirs == {"/h", "/g"}

Refs ==
    {IntRef(0), IntRef(1), IntRef(2), IntRef(999), IntRef(-1), OtherRef}
        \cup {StrRef(x) : x \in {"/h/nodes/0.json", "0.json", "/h/nodes/../nodes/0.json",
                                 "9.json", "notes.txt", "/h/nodes2/0.json"}}

ActionInputs == {IntRef(i) : i \in {-3, -1, 0, 1, 2, 3}} \cup {OtherRef}

Call(op, s, item, node, index, out) ==
    [op |-> op, s |-> s, item |-> item, node |-> node, index |-> index, out |-> out]

NewWorld ==
    [cache |-> EmptyDict, heap |-> heap, reads |-> [p \in DOMAIN disk |-> 0], loads |-> {}]

WithinBounds(w) == \A p \in DOMAIN w.reads : w.reads[p] <= MaxReads

\* One cache for the whole process: every session sees the entries of all.
InstallShared(s, w) ==
    /\ cache' = [t \in Sessions |-> w.cache]
    /\ heap' = w.heap
    /\ reads' = [reads EXCEPT ![s] = w.reads]
    /\ loads' = [loads EXCEPT ![s] = w.loads]

Install(s, w) ==
    /\ cache' = [cache EXCEPT ![s] = w.cache]
    /\ heap' = w.heap
    /\ reads' = [reads EXCEPT ![s] = w.reads]
    /\ loads' = [loads EXCEPT ![s] = w.loads]

InitOn(images) ==
    /\ disk \in images
    /\ kind = [s \in Sessions |-> "none"]
    /\ nodes_path = [s \in Sessions |-> ""]
    /\ cache = [s \in Sessions |-> EmptyDict]
    /\ nodes = [s \in Sessions |-> <<>>]
    /\ heap = EmptyDict
    /\ reads = [s \in Sessions |-> [p \in DOMAIN disk |-> 0]]
    /\ loads = [s \in Sessions |-> {}]
    /\ last = Call("init", "", NoItem, NoObj, NoItem, ReturnNone)
    /\ view = EmptyDict
    /\ pc = [t \in Threads |-> "idle"]
    /\ titem = [t \in Threads |-> NoItem]
    /\ tpath = [t \in Threads |-> None]
    /\ tnew = [t \in Threads |-> NoObj]
    /\ tret = [t \in Threads |-> NoObj]

Init == InitOn(DiskImages)

threadVars == <<pc, titem, tpath, tnew, tret>>

\* What a call on the cache or on a node leaves alone.
callFrame == <<disk, view, threadVars>>

\* NodeCache(nodes_path): a cache on its own, over an export of the disk
NewNodeCache(s) ==
    /\ kind[s] = "none"
    /\ \E dir \in {x \in ExportDirs : IsDir(disk, x)} :
        /\ kind' = [kind EXCEPT ![s] = "cache"]
        /\ nodes_path' = [nodes_path EXCEPT ![s] = Join(dir, "nodes")]
        /\ Install(s, NewWorld)
        /\ last' = Call("NodeCache", s, NoItem, NoObj, NoItem, Ok(NoObj))
    /\ UNCHANGED <<nodes, callFrame>>

\* HRCSim(hand_export_dir): when the constructor raises there is no session
OpenSim(s) ==
    /\ kind[s] = "none"
    /\ \E dir \in {x \in ExportDirs : IsDir(disk, x)} :
       \E listing \in Orders(Listdir(disk, Abspath(Join(dir, "nodes")))) :
       \E r \in {HRCSimInit(disk, NewWorld, dir, s, listing)} :
        /\ last' = Call("HRCSim", s, StrRef(dir), NoObj, NoItem, r.out)
        /\ IF r.out.kind = "ok"
           THEN /\ kind' = [kind EXCEPT ![s] = "sim"]
                /\ nodes_path' = [nodes_path EXCEPT ![s] = Join(dir, "nodes")]
                /\ nodes' = [nodes EXCEPT ![s] = r.nodes]
                /\ Install(s, r.w)
           ELSE UNCHANGED <<kind, nodes_path, nodes, cache, heap, reads, loads>>
    /\ UNCHANGED callFrame

\* sim.get_node(node_id), node_id one of refs
GetNodeOf(s, refs) ==
    /\ kind[s] = "sim"
    /\ \E item \in refs :
       \E r \in {GetItem(disk, World(s), nodes_path[s], s, item)} :
        /\ WithinBounds(r.w)
        /\ Install(s, r.w)
        /\ last' = Call("get_node", s, item, NoObj, NoItem, r.out)
    /\ UNCHANGED <<kind, nodes_path, nodes, callFrame>>

GetNode(s) == GetNodeOf(s, Refs)

\* node_cache[item], item one of refs
ResolveOf(s, refs) ==
    /\ kind[s] # "none"
    /\ \E item \in refs :
       \E r \in {GetItem(disk, World(s), nodes_path[s], s, item)} :
        /\ WithinBounds(r.w)
        /\ Install(s, r.w)
        /\ last' = Call("getitem", s, item, NoObj, NoItem, r.out)
    /\ UNCHANGED <<kind, nodes_path, nodes, callFrame>>

Resolve(s) == ResolveOf(s, Refs)

\* node.take_action(action), node any record of the session, action one of inputs
TakeActionOf(s, inputs) ==
    /\ kind[s] # "none"
    /\ \E n \in DOMAIN heap, action \in inputs :
        /\ heap[n].node_cache = s
        /\ \E r \in {TakeActionCall(disk, World(s), nodes_path[s], s, heap[n], action)} :
            /\ WithinBounds(r.w)
            /\ Install(s, r.w)
            /\ last' = Call("take_action", s, NoItem, n, action, r.out)
    /\ UNCHANGED <<kind, nodes_path, nodes, callFrame>>

TakeAction(s) == TakeActionOf(s, ActionInputs)

\* The sessions of the single-threaded specification.
MainSessions == {"A"}

Next ==
    \E s \in MainSessions :
        \/ NewNodeCache(s)
        \/ OpenSim(s)
        \/ GetNode(s)
        \/ Resolve(s)
        \/ TakeAction(s)

Spec == Init /\ [][Next]_vars

(***************************************************************************)
(* Resolver threads.  __getitem__ takes no lock, and the interpreter may   *)
(* switch threads between any two of its steps (the file read of           *)
(* HRCNode.__init__ releases the interpreter lock): the canonicalization,  *)
(* the test "node_path not in self.cache", the construction, the store     *)
(* into self.cache and the final read of self.cache are steps of their     *)
(* own.  Each thread resolves one reference on the cache of one session.   *)
(***************************************************************************)
ThreadSession == "A"

ThreadRefs == {IntRef(0), IntRef(1), IntRef(999), StrRef("0.json")}

\* lines 102-115: the canonicalization, on the thread's own locals
TCanonicalize(t) ==
    /\ kind[ThreadSession] = "cache"
    /\ pc[t] = "idle"
    /\ \E item \in ThreadRefs :
       \E c \in {Canonicalize(disk, nodes_path[ThreadSession], item)} :
        /\ titem' = [titem EXCEPT ![t] = item]
        /\ tpath' = [tpath EXCEPT ![t] = c.path]
        /\ pc' = [pc EXCEPT ![t] = IF c.err THEN "raised" ELSE "check"]
    /\ UNCHANGED <<disk, kind, nodes_path, cache, nodes, heap, reads, loads, last, view, tnew, tret>>

\* line 116: if node_path not in self.cache
TCheck(t) ==
    /\ pc[t] = "check"
    /\ pc' = [pc EXCEPT ![t] = IF InCache(cache[ThreadSession], tpath[t])
                                THEN "return" ELSE "construct"]
    /\ UNCHANGED <<disk, kind, nodes_path, cache, nodes, heap, reads, loads, last, view,
                   titem, tpath, tnew, tret>>

\* line 117, right-hand side: HRCNode(node_path, self)
TConstruct(t) ==
    /\ pc[t] = "construct"
    /\ \E n \in {NodeInit(disk, tpath[t], ThreadSession)} :
        /\ reads' = [reads EXCEPT ![ThreadSession] = CountRead(@, tpath[t], n.read)]
        /\ IF n.out.kind # "ok"
           THEN /\ pc' = [pc EXCEPT ![t] = "raised"]
                /\ UNCHANGED <<heap, tnew>>
           ELSE /\ pc' = [pc EXCEPT ![t] = "store"]
                /\ tnew' = [tnew EXCEPT ![t] = NewObj(heap, ThreadSession, tpath[t][1])]
                /\ heap' = (NewObj(heap, ThreadSession, tpath[t][1]) :> n.new) @@ heap
    /\ UNCHANGED <<disk, kind, nodes_path, cache, nodes, loads, last, view, titem, tpath, tret>>

\* line 117, the assignment: self.cache[node_path] = ...
TStore(t) ==
    /\ pc[t] = "store"
    /\ cache' = [cache EXCEPT ![ThreadSession] =
                    [p \in DOMAIN @ \cup {tpath[t][1]} |->
                        IF p = tpath[t][1] THEN tnew[t] ELSE @[p]]]
    /\ loads' = [loads EXCEPT ![ThreadSession] = @ \cup {<<titem[t], tnew[t]>>}]
    /\ pc' = [pc EXCEPT ![t] = "return"]
    /\ UNCHANGED <<disk, kind, nodes_path, nodes, heap, reads, last, view, titem, tpath, tnew, tret>>

\* line 118: return self.cache[node_path]
TReturn(t) ==
    /\ pc[t] = "return"
    /\ tret' = [tret EXCEPT ![t] = cache[ThreadSession][tpath[t][1]]]
    /\ pc' = [pc EXCEPT ![t] = "returned"]
    /\ UNCHANGED <<disk, kind, nodes_path, cache, nodes, heap, reads, loads, last, view,
                   titem, tpath, tnew>>

NextThreads ==
    \/ NewNodeCache(ThreadSession)
    \/ \E t \in Threads :
        \/ TCanonicalize(t)
        \/ TCheck(t)
        \/ TConstruct(t)
        \/ TStore(t)
        \/ TReturn(t)

SpecThreads == Init /\ [][NextThreads]_vars

(***************************************************************************)
(* The accessors of a record: HRCNode.as_json, Action.as_json and          *)
(* Action.__str__.                                                          *)
(***************************************************************************)
\* Action.as_json
ActionAsJson(a) ==
    [player |-> None, type |-> a.type, amount |-> a.amount, next_id |-> a.next_id]

\* A payload put together again from the actions' own as_json.
AsJsonFromFields(node) ==
    [node._node_json EXCEPT
        !.actions = [i \in DOMAIN node.actions |-> ActionAsJson(node.actions[i])]]

\* HRCNode.as_json: the payload json.loads gave
AsJson(node) == node._node_json

\* Action.action_map
ActionMap == [R |-> "Raise", F |-> "Fold", C |-> "Call"]

\* The value a call returned, when it is a text.
Text(x) == [kind |-> "ok", obj |-> NoObj, msg |-> x]

\* Action.__str__
ActionStr(a) ==
    IF a.type \notin DOMAIN ActionMap THEN Raise("KeyError", a.type)
    ELSE IF a.amount > 0
    THEN Text("Action[" \o ActionMap[a.type] \o "(" \o IntToStr(a.amount) \o ")]")
    ELSE Text("Action[" \o ActionMap[a.type] \o "]")

\* node.as_json(), node any record of the session
AsJsonCall(s) ==
    /\ kind[s] # "none"
    /\ \E n \in DOMAIN heap :
        /\ heap[n].node_cache = s
        /\ view' = AsJson(heap[n])
        /\ last' = Call("as_json", s, NoItem, n, NoItem, Ok(NoObj))
    /\ UNCHANGED <<disk, kind, nodes_path, cache, nodes, heap, reads, loads, threadVars>>

\* str(node.get_actions()[i]), node any record of the session
StrCall(s) ==
    /\ kind[s] # "none"
    /\ \E n \in DOMAIN heap :
        /\ heap[n].node_cache = s
        /\ \E i \in DOMAIN heap[n].actions :
            last' = Call("str", s, NoItem, n, IntRef(i - 1), ActionStr(heap[n].actions[i]))
    /\ UNCHANGED <<disk, kind, nodes_path, cache, nodes, heap, reads, loads, view, threadVars>>

\* An opened hand and the accessors of its records.
NextView ==
    \E s \in MainSessions :
        \/ OpenSim(s)
        \/ AsJsonCall(s)
        \/ StrCall(s)

SpecView == Init /\ [][NextView]_vars

(***************************************************************************)
(* Two sessions at once, over one export directory or over two.            *)
(***************************************************************************)
SessionRefs == {IntRef(0), IntRef(1), IntRef(999), StrRef("0.json")}

SessionInputs == {IntRef(0), IntRef(1)}

InitSessions == InitOn({ImgTwoHands})

NextSessions ==
    \E s \in Sessions :
        \/ NewNodeCache(s)
        \/ OpenSim(s)
        \/ GetNodeOf(s, SessionRefs)
        \/ ResolveOf(s, SessionRefs)
        \/ TakeActionOf(s, SessionInputs)

SpecSessions == InitSessions /\ [][NextSessions]_vars

(***************************************************************************)
(* What the specification calls things, for the properties below.          *)
(***************************************************************************)
\* The file a reference names: <node_dir>/<id>.json for an id, the path
\* itself for an absolute path, the name inside the node directory otherwise.
NamedPath(np, item) ==
    IF item.t = "int" THEN Join(np, IntToStr(item.n) \o ".json") ELSE Join(np, item.v)

NamedFile(np, item) == Normpath(NamedPath(np, item))

\* The three accepted forms of a reference (section 4.1).
IsIdForm(item) == item.t = "int" /\ item.n >= 0

IsPathForm(np, item) ==
    /\ item.t = "str"
    /\ StartsWith(item.v, "/")
    /\ EndsWith(item.v, ".json")
    /\ Dirname(Normpath(item.v)) = np

IsNameForm(item) ==
    item.t = "str" /\ EndsWith(item.v, ".json") /\ ~Contains(item.v, "/")

AcceptedForm(np, item) == IsIdForm(item) \/ IsPathForm(np, item) \/ IsNameForm(item)

\* A valid reference: an accepted form that names an existing file.
ValidRef(d, np, item) ==
    /\ AcceptedForm(np, item)
    /\ NamedFile(np, item) \in DOMAIN d
    /\ d[NamedFile(np, item)].type = "file"

\* A node file that has every required field.
WellFormed(d, p) ==
    /\ p \in DOMAIN d
    /\ d[p].type = "file"
    /\ d[p].valid
    /\ RequiredFields \subseteq DOMAIN d[p].json

\* A directory entry that matches the node-file suffix.
HasSuffix(name) == EndsWith(name, ".json")

IsResolve(c) == c.op \in {"getitem", "get_node"}

SessionUnchanged == cache' = cache /\ heap' = heap /\ reads' = reads /\ loads' = loads /\ nodes' = nodes

(***************************************************************************)
(* C1: within one session, every reference that names the same node file   *)
(* resolves to the same object, and the file is read once: no file has     *)
(* two stored constructions, and a resolve of a valid reference to a       *)
(* well-formed file returns the one object that was stored for that file,  *)
(* whichever reference had it loaded, with one read of the file in all.    *)
(***************************************************************************)
C1_SameRecordOneRead ==
    \A s \in Sessions :
        /\ \A e1, e2 \in loads[s] :
              NamedFile(nodes_path[s], e1[1]) = NamedFile(nodes_path[s], e2[1]) => e1 = e2
        /\ (IsResolve(last) /\ last.s = s /\ ValidRef(disk, nodes_path[s], last.item))
              => /\ WellFormed(disk, NamedFile(nodes_path[s], last.item)) => last.out.kind = "ok"
                 /\ last.out.kind = "ok" =>
                      /\ \E e \in loads[s] :
                            /\ NamedFile(nodes_path[s], e[1]) = NamedFile(nodes_path[s], last.item)
                            /\ e[2] = last.out.obj
                      /\ reads[s][NamedFile(nodes_path[s], last.item)] = 1

\* A file that an integer id had loaded is resolved again by a string.
C1_Witness ==
    \E s \in Sessions : \E e \in loads[s] :
        /\ IsResolve(last) /\ last.s = s /\ last.out.kind = "ok"
        /\ ValidRef(disk, nodes_path[s], last.item)
        /\ last.item.t = "str" /\ e[1].t = "int"
        /\ NamedFile(nodes_path[s], e[1]) = NamedFile(nodes_path[s], last.item)
        /\ e[2] = last.out.obj

(***************************************************************************)
(* C2: take_action(i) with i outside [0, len(actions)), every negative i   *)
(* included, fails with the addressing error of an invalid action index    *)
(* (the IndexError of the tuple) and returns no record.                    *)
(***************************************************************************)
IsTakeAction(c) == c.op = "take_action" /\ c.index.t = "int"

InRangeOf(h, c) == 0 <= c.index.n /\ c.index.n < Len(h[c.node].actions)

InRange(c) == InRangeOf(heap, c)

C2_OutOfRangeRejected ==
    (IsTakeAction(last) /\ ~InRange(last)) => last.out.kind = "IndexError"

(***************************************************************************)
(* C3: a node file that lacks a required field fails to load with a        *)
(* corrupt-node error that names the file and the field: no cache ever     *)
(* holds a record for such a file, and a resolve of it raises the error.   *)
(***************************************************************************)
MissingFields(d, p) == RequiredFields \ DOMAIN d[p].json

LacksField(d, p) ==
    p \in DOMAIN d /\ d[p].type = "file" /\ d[p].valid /\ MissingFields(d, p) # {}

C3_MissingFieldIsCorrupt ==
    \A s \in Sessions :
        /\ \A p \in DOMAIN cache[s] : ~LacksField(disk, p)
        /\ (IsResolve(last) /\ last.s = s /\ last.item.t \in {"int", "str"}
              /\ LacksField(disk, NamedFile(nodes_path[s], last.item)))
              => /\ last.out.kind = "KeyError"
                 /\ Contains(last.out.msg, NamedFile(nodes_path[s], last.item))
                 /\ \E f \in MissingFields(disk, NamedFile(nodes_path[s], last.item)) :
                       Contains(last.out.msg, f)

(***************************************************************************)
(* C4: HRCSim over a node directory with one corrupt or unreadable node    *)
(* file still opens, and every well-formed node file of the directory is   *)
(* in the cache and in the node set of the session.                        *)
(***************************************************************************)
OpenedDir(c) == Join(c.item.v, "nodes")

C4_OpenToleratesCorruptNode ==
    (last.op = "HRCSim" /\ LoadSettings(disk, last.item.v).kind = "ok"
        /\ IsDir(disk, OpenedDir(last)))
        => /\ last.out.kind = "ok"
           /\ \A name \in Listdir(disk, OpenedDir(last)) :
                 (HasSuffix(name) /\ WellFormed(disk, Join(OpenedDir(last), name)))
                    => /\ Join(OpenedDir(last), name) \in DOMAIN cache[last.s]
                       /\ \E i \in DOMAIN nodes[last.s] :
                             nodes[last.s][i] = cache[last.s][Join(OpenedDir(last), name)]

(***************************************************************************)
(* C5: a resolve of an id or a string that names no existing file raises   *)
(* the node-not-found KeyError, whose text carries the reference, and      *)
(* leaves the session as it was.                                           *)
(***************************************************************************)
NamesNoFile(d, np, item) ==
    item.t \in {"int", "str"} /\ ~Exists(d, NamedPath(np, item))

RefText(item) == IF item.t = "int" THEN IntToStr(item.n) ELSE item.v

C5_MissingNodeKeyError ==
    [][\A s \in Sessions :
          (IsResolve(last') /\ last'.s = s /\ NamesNoFile(disk, nodes_path[s], last'.item))
             => /\ last'.out.kind = "KeyError"
                /\ StartsWith(last'.out.msg, "No such node ")
                /\ Contains(last'.out.msg, RefText(last'.item))
                /\ SessionUnchanged]_vars

\* resolve(999) failed on a cache that holds records.
C5_Witness ==
    /\ IsResolve(last) /\ last.item = IntRef(999)
    /\ last.out.kind = "KeyError"
    /\ cache[last.s] # EmptyDict

(***************************************************************************)
(* C6: a reference that is not of an accepted form (a non-negative id, an  *)
(* absolute path inside the node directory with the node suffix, a bare    *)
(* filename with the node suffix) is rejected with the addressing error,   *)
(* the KeyError: nothing is parsed and nothing is cached.                  *)
(***************************************************************************)
C6_OtherRefsRejected ==
    [][\A s \in Sessions :
          (IsResolve(last') /\ last'.s = s /\ ~AcceptedForm(nodes_path[s], last'.item))
             => (last'.out.kind = "KeyError" /\ SessionUnchanged)]_vars

(***************************************************************************)
(* C7: take_action(i), 0 <= i < len(actions), returns None exactly when    *)
(* the action's "node" is absent in the node file (an id of 0 is a         *)
(* successor), and returning None it reads no file and leaves the session  *)
(* as it was.                                                              *)
(***************************************************************************)
\* The action of the node file that the call addresses.
FileActionOf(h, c) == h[c.node]._node_json.actions[c.index.n + 1]

FileAction(c) == FileActionOf(heap, c)

C7_TerminalReturnsNone ==
    [][(IsTakeAction(last') /\ InRangeOf(heap', last'))
          => /\ last'.out.kind = "None" <=> "node" \notin DOMAIN FileActionOf(heap', last')
             /\ last'.out.kind = "None" => SessionUnchanged]_vars

\* take_action on a terminal action of a loaded node returned None.
C7_Witness ==
    /\ IsTakeAction(last) /\ InRange(last)
    /\ "node" \notin DOMAIN FileAction(last)
    /\ last.out.kind = "None"

(***************************************************************************)
(* C8: take_action(i), 0 <= i < len(actions), on an action with successor  *)
(* id n whose node file exists and is well-formed returns the record with  *)
(* id n, the object the cache holds for <node_dir>/<n>.json, which is      *)
(* also what a lookup of n returns.                                        *)
(***************************************************************************)
SuccessorPath(c) == Join(nodes_path[c.s], IntToStr(FileAction(c).node) \o ".json")

C8_SuccessorIsNode ==
    (IsTakeAction(last) /\ InRange(last) /\ "node" \in DOMAIN FileAction(last)
        /\ WellFormed(disk, SuccessorPath(last)))
        => /\ last.out.kind = "ok"
           /\ heap[last.out.obj].id = FileAction(last).node
           /\ SuccessorPath(last) \in DOMAIN cache[last.s]
           /\ cache[last.s][SuccessorPath(last)] = last.out.obj
           /\ GetItem(disk, World(last.s), nodes_path[last.s], last.s,
                      IntRef(FileAction(last).node)).out = Ok(last.out.obj)

\* Node 2's second action (index 1) led to node 0.
C8_Witness ==
    /\ IsTakeAction(last) /\ InRange(last)
    /\ heap[last.node].id = 2 /\ last.index.n = 1
    /\ last.out.kind = "ok" /\ heap[last.out.obj].id = 0

(***************************************************************************)
(* C9: once HRCSim has opened, its node set holds one record for each      *)
(* directory entry with the node suffix and no other, each the object of   *)
(* the cache entry of that file; entries without the suffix are in         *)
(* neither, and they never make the open fail (an open over well-formed    *)
(* node files and settings succeeds whatever else the directory holds).    *)
(***************************************************************************)
SuffixEntries(s) ==
    {Join(nodes_path[s], name) :
        name \in {x \in Listdir(disk, nodes_path[s]) : HasSuffix(x)}}

OtherEntries(s) ==
    {Join(nodes_path[s], name) :
        name \in {x \in Listdir(disk, nodes_path[s]) : ~HasSuffix(x)}}

C9_NodeSetIsSuffixFiles ==
    /\ \A s \in Sessions : kind[s] = "sim" =>
          /\ Len(nodes[s]) = Cardinality(SuffixEntries(s))
          /\ \A p \in SuffixEntries(s) :
                /\ p \in DOMAIN cache[s]
                /\ heap[cache[s][p]].filename = p
                /\ \E i \in DOMAIN nodes[s] : nodes[s][i] = cache[s][p]
          /\ \A p \in OtherEntries(s) :
                /\ p \notin DOMAIN cache[s]
                /\ \A i \in DOMAIN nodes[s] : heap[nodes[s][i]].filename # p
    /\ (last.op = "HRCSim" /\ LoadSettings(disk, last.item.v).kind = "ok"
          /\ \A name \in Listdir(disk, OpenedDir(last)) :
                HasSuffix(name) => WellFormed(disk, Join(OpenedDir(last), name)))
          => last.out.kind = "ok"

\* An open over a directory that also holds a file and a directory without
\* the suffix.
C9_Witness ==
    \E s \in Sessions :
        /\ kind[s] = "sim"
        /\ Cardinality(OtherEntries(s)) >= 2
        /\ Len(nodes[s]) >= 3

(***************************************************************************)
(* C10: with several resolvers on one cache, the test for a miss and the   *)
(* insert are atomic: in every interleaving a well-formed node file is     *)
(* read at most once, and the resolvers of one path return one object.     *)
(***************************************************************************)
C10_AtomicCheckAndInsert ==
    /\ \A s \in Sessions : \A p \in DOMAIN reads[s] :
          WellFormed(disk, p) => reads[s][p] <= 1
    /\ \A t1, t2 \in Threads :
          (pc[t1] = "returned" /\ pc[t2] = "returned" /\ tpath[t1] = tpath[t2])
             => tret[t1] = tret[t2]

(***************************************************************************)
(* C11: every record in a cache has the id that is the integer in the name *)
(* of its file: the record stored for <n>.json has id n, and a resolve of  *)
(* the integer n that returns a record returns one with id n.              *)
(***************************************************************************)
\* The integers a node file of the model may be named after.
FileIds == (-3..10) \cup {999}

\* <n>.json
FileNameOf(n) == IntToStr(n) \o ".json"

C11_IdMatchesFileName ==
    \A s \in Sessions :
        /\ \A p \in DOMAIN cache[s] : \A n \in FileIds :
              Basename(p) = FileNameOf(n) => heap[cache[s][p]].id = n
        /\ (IsResolve(last) /\ last.s = s /\ last.item.t = "int" /\ last.out.kind = "ok")
              => heap[last.out.obj].id = last.item.n

\* resolve(-1) returned the record of -1.json, next to the record of 1.json.
C11_Witness ==
    /\ IsResolve(last) /\ last.item = IntRef(-1) /\ last.out.kind = "ok"
    /\ heap[last.out.obj].id = -1
    /\ \E p \in DOMAIN cache[last.s] : Basename(p) = FileNameOf(1)

(***************************************************************************)
(* C12: in every record that was loaded, each hand of the strategy map has *)
(* as many played frequencies and as many values as the node has actions.  *)
(***************************************************************************)
C12_HandLengthsMatchActions ==
    \A o \in DOMAIN heap : \A h \in DOMAIN heap[o].hands :
        /\ Len(heap[o].hands[h].played) = Len(heap[o].actions)
        /\ Len(heap[o].hands[h].evs) = Len(heap[o].actions)

(***************************************************************************)
(* C13: the payload as_json returns, written back as the node's file and   *)
(* parsed again, gives a record with the same id, player, street, history  *)
(* (sequence), actions and strategy (hands).                               *)
(***************************************************************************)
RecordFields == {"id", "player", "street", "sequence", "actions", "hands"}

\* The record HRCNode builds from payload in the place of the file of node.
Reparsed(d, node, payload) ==
    NodeInit((node.filename :> File(payload)) @@ d, Some(node.filename), node.node_cache)

C13_AsJsonRoundTrip ==
    last.op = "as_json" =>
        /\ Reparsed(disk, heap[last.node], view).out.kind = "ok"
        /\ \A k \in RecordFields :
              Get(Reparsed(disk, heap[last.node], view).new, k) = Get(heap[last.node], k)

\* The payload of a node with a history, a successor edge or strategy rows.
C13_Witness ==
    /\ last.op = "as_json"
    /\ heap[last.node].id = 0
    /\ \E i \in DOMAIN heap[last.node].actions : heap[last.node].actions[i].next_id = Some(1)
    /\ heap[last.node].hands["AA"].played = <<0, 1>>

(***************************************************************************)
(* C14: the cache of a session starts empty and only grows: a session that *)
(* is not open has an empty cache, a new NodeCache is empty, and whatever  *)
(* call is made, a path that maps to a record maps to that same record     *)
(* after it.                                                               *)
(***************************************************************************)
C14_CacheOnlyGrows ==
    [][\A s \in Sessions :
          /\ kind[s] = "none" => cache[s] = EmptyDict
          /\ last'.op = "NodeCache" /\ last'.s = s => cache'[s] = EmptyDict
          /\ \A p \in DOMAIN cache[s] :
                p \in DOMAIN cache'[s] /\ cache'[s][p] = cache[s][p]]_vars

\* A resolve succeeded on a cache of two entries, one loaded through an id
\* and one through a string, each file read once.
C14_Witness ==
    \E s \in Sessions :
        /\ kind[s] = "cache"
        /\ Cardinality(DOMAIN cache[s]) >= 2
        /\ IsResolve(last) /\ last.s = s /\ last.out.kind = "ok"
        /\ \A p \in DOMAIN cache[s] : reads[s][p] = 1
        /\ \E e \in loads[s] : e[1].t = "int" /\ \E f \in loads[s] : f[1].t = "str"

(***************************************************************************)
(* C15: every key of a cache is the path of a file of the session's node   *)
(* directory, named <id>.json, so no two entries have the same node id; a  *)
(* string that leads outside the node directory is never loaded or cached. *)
(***************************************************************************)
C15_KeysInsideNodeDir ==
    \A s \in Sessions :
        /\ \A p \in DOMAIN cache[s] :
              /\ Dirname(p) = nodes_path[s]
              /\ \E n \in FileIds : Basename(p) = FileNameOf(n)
        /\ \A p, q \in DOMAIN cache[s] :
              heap[cache[s][p]].id = heap[cache[s][q]].id => p = q

(***************************************************************************)
(* C16: resolution is lazy.  A resolve or a take_action that returns a     *)
(* record reads at most the file of that record, once, adds at most the    *)
(* entry of that file to the cache and constructs at most that record: the *)
(* successors of its actions are not loaded with it.                       *)
(***************************************************************************)
IsLookup(c) == c.op \in {"getitem", "get_node", "take_action"}

C16_LazyResolution ==
    [][\A s \in Sessions :
          (IsLookup(last') /\ last'.s = s /\ last'.out.kind = "ok")
             => /\ DOMAIN cache'[s] \ DOMAIN cache[s] \subseteq {heap'[last'.out.obj].filename}
                /\ DOMAIN heap' \ DOMAIN heap \subseteq {last'.out.obj}
                /\ \A p \in DOMAIN reads[s] :
                      reads'[s][p] <= reads[s][p]
                          + (IF p = heap'[last'.out.obj].filename THEN 1 ELSE 0)]_vars

\* Node 0 was resolved on a fresh cache: its action leads to node 1, whose
\* file is there and has not been read.
C16_Witness ==
    \E s \in Sessions :
        /\ kind[s] = "cache"
        /\ IsResolve(last) /\ last.s = s /\ last.out.kind = "ok"
        /\ heap[last.out.obj].id = 0
        /\ \E i \in DOMAIN heap[last.out.obj].actions :
              heap[last.out.obj].actions[i].next_id = Some(1)
        /\ DOMAIN cache[s] = {heap[last.out.obj].filename}
        /\ WellFormed(disk, Join(nodes_path[s], FileNameOf(1)))
        /\ reads[s][Join(nodes_path[s], FileNameOf(1))] = 0

(***************************************************************************)
(* C17: take_action(i), 0 <= i < len(actions), on an action whose          *)
(* successor id has no node file fails with the addressing error (the      *)
(* KeyError of the cache) and never returns None, and the session is left  *)
(* as it was.                                                              *)
(***************************************************************************)
\* The action addressed has a successor id and the file of that id is missing.
Dangling(h, np, c) ==
    /\ "node" \in DOMAIN FileActionOf(h, c)
    /\ ~Exists(disk, Join(np, IntToStr(FileActionOf(h, c).node) \o ".json"))

C17_DanglingEdgeFails ==
    [][(IsTakeAction(last') /\ InRangeOf(heap', last')
          /\ Dangling(heap', nodes_path[last'.s], last'))
          => /\ last'.out.kind = "KeyError"
             /\ StartsWith(last'.out.msg, "No such node ")
             /\ SessionUnchanged]_vars

\* Node 2's first action leads to node 7, which has no file.
C17_Witness ==
    /\ IsTakeAction(last) /\ InRange(last)
    /\ heap[last.node].id = 2 /\ last.index.n = 0
    /\ FileAction(last).node = 7
    /\ Dangling(heap, nodes_path[last.s], last)
    /\ last.out.kind = "KeyError"

(***************************************************************************)
(* C18: an action whose kind is not R, F or C is kept as it is: the node   *)
(* loads, the record has the kind of the file, and rendering the action    *)
(* (str) does not fail.                                                    *)
(***************************************************************************)
KnownKinds == {"R", "F", "C"}

C18_UnknownKindKept ==
    /\ \A o \in DOMAIN heap : \A i \in DOMAIN heap[o].actions :
          heap[o].actions[i].type = heap[o]._node_json.actions[i].type
    /\ (last.op = "str" /\ FileAction(last).type \notin KnownKinds)
          => last.out.kind = "ok"

(***************************************************************************)
(* C19: caches belong to their session.  With two sessions open, a call in *)
(* one (a resolve, a lookup, a take_action, or its opening) leaves the     *)
(* cache, the node set, the reads and the directory of the other as they   *)
(* were, and no object is in the caches of both.                           *)
(***************************************************************************)
Objects(s) == {cache[s][p] : p \in DOMAIN cache[s]}

C19_SessionsIndependent ==
    [][\A s, t \in Sessions :
          (s # t /\ last'.s = s)
             => /\ cache'[t] = cache[t] /\ nodes'[t] = nodes[t]
                /\ reads'[t] = reads[t] /\ nodes_path'[t] = nodes_path[t]
                /\ Objects(s)' \cap Objects(t)' = {}]_vars

\* Both sessions hold a record for the same file of one directory, and the
\* last call, a take_action, loaded node 1 into one of them only.
C19_Witness ==
    \E s, t \in Sessions :
        /\ s # t /\ nodes_path[s] = nodes_path[t] /\ kind[s] # "none"
        /\ \E p \in DOMAIN cache[s] \cap DOMAIN cache[t] : cache[s][p] # cache[t][p]
        /\ last.op = "take_action" /\ last.s = s /\ last.out.kind = "ok"
        /\ heap[last.out.obj].filename \notin DOMAIN cache[t]
====
